---- MODULE Spec2Model ----
(***************************************************************************)
(* PM Flex ETL pipeline: timing classification, chronic tool scoring,      *)
(* silver enrichment orchestration and the gold rolling-average pass.      *)
(*                                                                         *)
(* Floating point columns are modelled as fixed-point integers counting    *)
(* 1/Scale units; a nullable column holds NaN (the empty tuple) or         *)
(* Num(v) (a one-element tuple).                                           *)
(***************************************************************************)
EXTENDS Integers, Sequences, FiniteSets, TLC

VARIABLES
    pc,               \* position of the modelled call: "input" before it ran, "done" after
    timing,           \* PMTimingClassifier instance: its five thresholds
    row,              \* the event row handed to classify_timing / classify_scheduled
    analyzer,         \* ChronicToolAnalyzer instance: thresholds, weights, severity cutoffs
    events,           \* the classified events handed to analyze_by_entity
    entity_metrics,   \* the Entity Aggregate frame (one record per row)
    fact_site,        \* fact_pm_kpis_by_site_ww as fetched ORDER BY FACILITY, ww_year, ww_number
    rolling_result,   \* outcome of the Python rolling pass
    pm_flex_raw,      \* bronze table
    pm_flex_enriched, \* silver table of classified events
    pm_flex_downtime_summary,
    pm_flex_chronic_tools,
    DimDate,          \* the fiscal years of the calendar rows, counted from the year of the first run
    last_run,         \* the last enrichment call: arguments, outcome, rows appended
    raw_added,        \* TRUE when pm_flex_raw grew since the last enrichment call ended
    run_count,        \* number of enrichment calls or pipeline runs made
    input_file,       \* the PM_Flex file that file discovery finds
    fact_tables,      \* gold tables: site KPIs, CEID KPIs, chronic tools history
    last_pipeline     \* the last run_full_pipeline call: arguments and outcome

vars == <<pc, timing, row, analyzer, events, entity_metrics, fact_site,
          rolling_result, pm_flex_raw, pm_flex_enriched,
          pm_flex_downtime_summary, pm_flex_chronic_tools, DimDate,
          last_run, raw_added, run_count, input_file, fact_tables,
          last_pipeline>>

timingVars   == <<timing, row>>
chronicVars  == <<analyzer, events, entity_metrics>>
rollingVars  == <<fact_site, rolling_result>>
pipelineVars == <<pm_flex_raw, pm_flex_enriched, pm_flex_downtime_summary,
                  pm_flex_chronic_tools, DimDate, last_run, raw_added,
                  run_count, input_file, fact_tables, last_pipeline>>

fullVars == <<input_file, fact_tables, last_pipeline>>

----------------------------------------------------------------------------
(* Numbers                                                                 *)

\* fixed-point units per 1.0
Scale == 1000

NaN == <<>>
Num(v) == <<v>>
isna(x) == x = NaN
Val(x) == x[1]

Min(a, b) == IF a < b THEN a ELSE b
Max(a, b) == IF a > b THEN a ELSE b

\* dict.get(key, default)
Get(d, k, default) == IF k \in DOMAIN d THEN d[k] ELSE default

----------------------------------------------------------------------------
(* PMTimingClassifier                                                      *)

TimingKeys == {"early_threshold", "on_time_min", "on_time_max",
               "late_threshold", "overdue_threshold"}

PMTimingClassifier_init(pm_timing) ==
    [early_threshold   |-> Get(pm_timing, "early_threshold", -15),
     on_time_min       |-> Get(pm_timing, "on_time_min", -15),
     on_time_max       |-> Get(pm_timing, "on_time_max", 15),
     late_threshold    |-> Get(pm_timing, "late_threshold", 15),
     overdue_threshold |-> Get(pm_timing, "overdue_threshold", 30)]

\* df['CUSTOM_DELTA'] - df['Median_Delta']; a null operand gives NaN
pm_life_vs_target(r) ==
    IF isna(r.CUSTOM_DELTA) \/ isna(r.Median_Delta) THEN NaN
    ELSE Num(Val(r.CUSTOM_DELTA) - Val(r.Median_Delta))

\* the guard written as Median_Delta != 0
pm_life_vs_target_pct_nonzero(r) ==
    IF isna(r.Median_Delta) THEN NaN
    ELSE IF Val(r.Median_Delta) # 0
         THEN IF isna(pm_life_vs_target(r)) THEN NaN
              ELSE Num((Val(pm_life_vs_target(r)) * 100 * Scale) \div Val(r.Median_Delta))
         ELSE NaN

\* np.where(Median_Delta > 0, (pm_life_vs_target / Median_Delta) * 100, nan),
\* in 1/Scale percent; NaN > 0 is False and NaN / x is NaN
pm_life_vs_target_pct(r) ==
    IF isna(r.Median_Delta) THEN NaN
    ELSE IF Val(r.Median_Delta) > 0
         THEN IF isna(pm_life_vs_target(r)) THEN NaN
              ELSE Num((Val(pm_life_vs_target(r)) * 100 * Scale) \div Val(r.Median_Delta))
         ELSE NaN

\* the early test written as pct <= early_threshold
classify_row_early_inclusive(self, pct) ==
    IF isna(pct) THEN "Unknown"
    ELSE IF Val(pct) <= self.early_threshold * Scale THEN "Early"
    ELSE IF self.on_time_min * Scale <= Val(pct) /\ Val(pct) <= self.on_time_max * Scale
         THEN "On-Time"
    ELSE IF self.late_threshold * Scale < Val(pct) /\ Val(pct) <= self.overdue_threshold * Scale
         THEN "Late"
    ELSE IF Val(pct) > self.overdue_threshold * Scale THEN "Overdue"
    ELSE "On-Time"

\* the fallback branch returning 'Late'
classify_row_gap_late(self, pct) ==
    IF isna(pct) THEN "Unknown"
    ELSE IF Val(pct) < self.early_threshold * Scale THEN "Early"
    ELSE IF self.on_time_min * Scale <= Val(pct) /\ Val(pct) <= self.on_time_max * Scale
         THEN "On-Time"
    ELSE IF self.late_threshold * Scale < Val(pct) /\ Val(pct) <= self.overdue_threshold * Scale
         THEN "Late"
    ELSE IF Val(pct) > self.overdue_threshold * Scale THEN "Overdue"
    ELSE "Late"

\* thresholds are percentages, pct counts 1/Scale percent
classify_row(self, pct) ==
    IF isna(pct) THEN "Unknown"
    ELSE IF Val(pct) < self.early_threshold * Scale THEN "Early"
    ELSE IF self.on_time_min * Scale <= Val(pct) /\ Val(pct) <= self.on_time_max * Scale
         THEN "On-Time"
    ELSE IF self.late_threshold * Scale < Val(pct) /\ Val(pct) <= self.overdue_threshold * Scale
         THEN "Late"
    ELSE IF Val(pct) > self.overdue_threshold * Scale THEN "Overdue"
    ELSE "On-Time"

classify_timing(self, r) ==
    [r EXCEPT !.pm_life_vs_target = pm_life_vs_target(r),
              !.pm_life_vs_target_pct = pm_life_vs_target_pct(r),
              !.pm_timing_classification = classify_row(self, pm_life_vs_target_pct(r))]

----------------------------------------------------------------------------
(* ChronicToolAnalyzer                                                     *)

\* thresholds.get(...), weights.get(...), severity.get(...) with their defaults;
\* rates and weights count 1/Scale units, severity cutoffs are score points
ChronicToolAnalyzer_init(chronic_config) ==
    LET thresholds == Get(chronic_config, "chronic_tool_threshold", <<>>)
        weights    == Get(chronic_config, "score_weights", <<>>)
        severity   == Get(chronic_config, "severity_thresholds", <<>>)
    IN [unscheduled_pm_threshold |-> Get(thresholds, "unscheduled_pm_rate", 300),
        pm_variance_threshold    |-> Get(thresholds, "pm_life_variance", 400),
        min_pm_events            |-> Get(thresholds, "min_pm_events", 5),
        weight_unscheduled       |-> Get(weights, "unscheduled_pm_rate", 350),
        weight_variance          |-> Get(weights, "pm_life_variance", 250),
        weight_downtime          |-> Get(weights, "downtime_hours", 200),
        weight_reclean           |-> Get(weights, "reclean_rate", 100),
        weight_sympathy          |-> Get(weights, "sympathy_pm_rate", 100),
        severity_low             |-> Get(severity, "low", 25),
        severity_medium          |-> Get(severity, "medium", 50),
        severity_high            |-> Get(severity, "high", 75),
        severity_critical        |-> Get(severity, "critical", 90)]

\* np.clip(x, lo, hi); NaN stays NaN
clip(x, lo, hi) == IF isna(x) THEN NaN ELSE Num(Max(lo, Min(hi, Val(x))))

\* (metric / reference) * 100 as a score in 1/Scale points
ratio_pct(x, reference) ==
    IF isna(x) THEN NaN ELSE Num((Val(x) * 100 * Scale) \div reference)

\* metric * 100
times100(x) == IF isna(x) THEN NaN ELSE Num(Val(x) * 100)

\* Series.round(2): nearest 1/100, ties to even
round2(x) ==
    LET unit == Scale \div 100
        q == Val(x) \div unit
        r == Val(x) % unit
    IN IF isna(x) THEN NaN
       ELSE IF 2 * r < unit THEN Num(q * unit)
       ELSE IF 2 * r > unit THEN Num((q + 1) * unit)
       ELSE IF q % 2 = 0 THEN Num(q * unit) ELSE Num((q + 1) * unit)

unscheduled_score(self, m) ==
    clip(ratio_pct(m.unscheduled_pm_rate, self.unscheduled_pm_threshold), 0, 100 * Scale)

variance_score(self, m) ==
    clip(ratio_pct(m.pm_life_variance, self.pm_variance_threshold), 0, 100 * Scale)

\* ten hours per PM is the fixed reference
downtime_score(m) ==
    clip(ratio_pct(m.avg_downtime_hours_per_pm, 10 * Scale), 0, 100 * Scale)

reclean_score(m) == times100(m.reclean_rate)

sympathy_score(m) == times100(m.sympathy_pm_rate)

\* weighted composite of the five factor scores, NaN if any factor is NaN
weighted_sum(self, m) ==
    LET us == unscheduled_score(self, m)
        vs == variance_score(self, m)
        ds == downtime_score(m)
        rs == reclean_score(m)
        ss == sympathy_score(m)
    IN IF isna(us) \/ isna(vs) \/ isna(ds) \/ isna(rs) \/ isna(ss) THEN NaN
       ELSE Num((Val(us) * self.weight_unscheduled
                 + Val(vs) * self.weight_variance
                 + Val(ds) * self.weight_downtime
                 + Val(rs) * self.weight_reclean
                 + Val(ss) * self.weight_sympathy) \div Scale)

calculate_chronic_score(self, m) ==
    [m EXCEPT !.chronic_score = round2(weighted_sum(self, m))]

\* a comparison with NaN is False
gt(x, t) == ~isna(x) /\ Val(x) > t
ge(x, t) == ~isna(x) /\ Val(x) >= t

\* the rate tests written with >=
chronic_flag_inclusive(self, m) ==
    IF m.total_pm_events >= self.min_pm_events
       /\ (ge(m.unscheduled_pm_rate, self.unscheduled_pm_threshold)
           \/ ge(m.pm_life_variance, self.pm_variance_threshold))
    THEN 1 ELSE 0

chronic_flag(self, m) ==
    IF m.total_pm_events >= self.min_pm_events
       /\ (gt(m.unscheduled_pm_rate, self.unscheduled_pm_threshold)
           \/ gt(m.pm_life_variance, self.pm_variance_threshold))
    THEN 1 ELSE 0

\* the 'High' and 'Medium' labels swapped
assign_severity_swapped(self, r) ==
    IF r.chronic_flag = 0 THEN "None"
    ELSE IF ge(r.chronic_score, self.severity_critical * Scale) THEN "Critical"
    ELSE IF ge(r.chronic_score, self.severity_high * Scale) THEN "Medium"
    ELSE IF ge(r.chronic_score, self.severity_medium * Scale) THEN "High"
    ELSE "Low"

\* a flagged score under the 'low' cutoff given no tier
assign_severity_low_cutoff(self, r) ==
    IF r.chronic_flag = 0 THEN "None"
    ELSE IF ge(r.chronic_score, self.severity_critical * Scale) THEN "Critical"
    ELSE IF ge(r.chronic_score, self.severity_high * Scale) THEN "High"
    ELSE IF ge(r.chronic_score, self.severity_medium * Scale) THEN "Medium"
    ELSE IF ge(r.chronic_score, self.severity_low * Scale) THEN "Low"
    ELSE "None"

\* row is the aggregate with chronic_flag already set
assign_severity(self, r) ==
    IF r.chronic_flag = 0 THEN "None"
    ELSE IF ge(r.chronic_score, self.severity_critical * Scale) THEN "Critical"
    ELSE IF ge(r.chronic_score, self.severity_high * Scale) THEN "High"
    ELSE IF ge(r.chronic_score, self.severity_medium * Scale) THEN "Medium"
    ELSE "Low"

classify_chronic_tools(self, m) ==
    LET flagged == [m EXCEPT !.chronic_flag = chronic_flag(self, m)]
    IN [flagged EXCEPT !.chronic_severity = assign_severity(self, flagged)]

\* str(x).lower() on the downtime types of the model; str(None) is 'None'
lower(x) ==
    IF isna(x) THEN "none"
    ELSE CASE Val(x) = "Scheduled"   -> "scheduled"
           [] Val(x) = "scheduled"   -> "scheduled"
           [] Val(x) = "UNSCHEDULED" -> "unscheduled"
           [] Val(x) = "Unscheduled" -> "unscheduled"
           [] OTHER                  -> "repair"

scheduled_flag(downtime_type) ==
    IF lower(downtime_type) = "scheduled" THEN 1 ELSE 0

scheduled_category(downtime_type) ==
    IF lower(downtime_type) = "scheduled" THEN "Scheduled"
    ELSE IF lower(downtime_type) = "unscheduled" THEN "Unscheduled"
    ELSE "Unknown"

classify_scheduled(r) ==
    [r EXCEPT !.scheduled_flag = scheduled_flag(r.DOWNTIME_TYPE),
              !.scheduled_category = scheduled_category(r.DOWNTIME_TYPE)]

----------------------------------------------------------------------------
(* analyze_by_entity: groupby(['ENTITY', 'FACILITY', 'CEID']).agg(...)      *)

RECURSIVE SumSeq(_)
SumSeq(s) == IF s = <<>> THEN 0 ELSE Head(s) + SumSeq(Tail(s))

RECURSIVE ISqrtIn(_, _, _)
\* largest r in lo..hi with r * r <= x
ISqrtIn(x, lo, hi) ==
    IF lo >= hi THEN lo
    ELSE LET mid == (lo + hi + 1) \div 2
         IN IF mid * mid <= x THEN ISqrtIn(x, mid, hi) ELSE ISqrtIn(x, lo, mid - 1)

ISqrt(x) == ISqrtIn(x, 0, 46340)

RECURSIVE NonNull(_)
\* the non-null values of a column, as plain numbers
NonNull(col) ==
    IF col = <<>> THEN <<>>
    ELSE IF isna(Head(col)) THEN NonNull(Tail(col))
    ELSE <<Val(Head(col))>> \o NonNull(Tail(col))

Column(rows, f) == [i \in 1..Len(rows) |-> rows[i][f]]

Squares(xs) == [i \in 1..Len(xs) |-> xs[i] * xs[i]]

\* 'count': number of non-null values
agg_count(col) == Len(NonNull(col))

\* 'sum': nulls are skipped, an all-null column sums to 0
agg_sum(col) == Num(SumSeq(NonNull(col)) * Scale)

\* 'mean': nulls are skipped, NaN without values
agg_mean(col) ==
    LET xs == NonNull(col)
    IN IF Len(xs) = 0 THEN NaN ELSE Num((SumSeq(xs) * Scale) \div Len(xs))

\* 'std': sample standard deviation (ddof=1), NaN with fewer than two values
agg_std(col) ==
    LET xs == NonNull(col)
        k  == Len(xs)
        S  == SumSeq(xs)
        Q  == SumSeq(Squares(xs))
    IN IF k < 2 THEN NaN
       ELSE Num(ISqrt(((k * Q - S * S) * Scale * Scale) \div (k * (k - 1))))

\* lambda x: (x == 0).sum()
count_eq(col, v) == Len(SelectSeq(col, LAMBDA x : x = v))

\* numerator / denominator of two float columns
fdiv(a, b) ==
    IF isna(a) \/ isna(b) THEN NaN ELSE Num((Val(a) * Scale) \div Val(b))

\* np.where(avg_pm_life > 0, pm_life_std_dev / avg_pm_life, 0)
pm_life_variance(std, avg) ==
    IF gt(avg, 0) THEN fdiv(std, avg) ELSE Num(0)

GroupKey(e) == <<e.ENTITY, e.FACILITY, e.CEID>>

\* groupby drops the rows whose key holds a null
HasKey(e) == ~isna(e.ENTITY) /\ ~isna(e.FACILITY) /\ ~isna(e.CEID)

GroupRows(df, key) == SelectSeq(df, LAMBDA e : HasKey(e) /\ GroupKey(e) = key)

\* the rate divided by the number of scheduled events instead of all events
aggregate_rate_of_scheduled(key, rows) ==
    LET total     == agg_count(Column(rows, "pm_flex_raw_id"))
        unsched   == count_eq(Column(rows, "scheduled_flag"), 0)
        sched     == count_eq(Column(rows, "scheduled_flag"), 1)
        downtime  == agg_sum(Column(rows, "DOWN_WINDOW_DURATION_HR"))
        std       == agg_std(Column(rows, "CUSTOM_DELTA"))
        avg       == agg_mean(Column(rows, "CUSTOM_DELTA"))
    IN [ENTITY |-> key[1], FACILITY |-> key[2], CEID |-> key[3],
        total_pm_events           |-> total,
        unscheduled_pm_count      |-> unsched,
        total_downtime_hours      |-> downtime,
        pm_life_std_dev           |-> std,
        avg_pm_life               |-> avg,
        reclean_rate              |-> agg_mean(Column(rows, "Reclean_Label")),
        sympathy_pm_rate          |-> agg_mean(Column(rows, "Sympathy_PM")),
        unscheduled_pm_rate       |-> IF sched = 0 THEN NaN ELSE Num((unsched * Scale) \div sched),
        avg_downtime_hours_per_pm |-> Num(Val(downtime) \div total),
        pm_life_variance          |-> pm_life_variance(std, avg),
        chronic_score             |-> NaN,
        chronic_flag              |-> 0,
        chronic_severity          |-> "None"]

\* the first event of the group left out of the unscheduled count
aggregate_skip_first(key, rows) ==
    LET total     == agg_count(Column(rows, "pm_flex_raw_id"))
        unsched   == count_eq(Tail(Column(rows, "scheduled_flag")), 0)
        downtime  == agg_sum(Column(rows, "DOWN_WINDOW_DURATION_HR"))
        std       == agg_std(Column(rows, "CUSTOM_DELTA"))
        avg       == agg_mean(Column(rows, "CUSTOM_DELTA"))
    IN [ENTITY |-> key[1], FACILITY |-> key[2], CEID |-> key[3],
        total_pm_events           |-> total,
        unscheduled_pm_count      |-> unsched,
        total_downtime_hours      |-> downtime,
        pm_life_std_dev           |-> std,
        avg_pm_life               |-> avg,
        reclean_rate              |-> agg_mean(Column(rows, "Reclean_Label")),
        sympathy_pm_rate          |-> agg_mean(Column(rows, "Sympathy_PM")),
        unscheduled_pm_rate       |-> Num((unsched * Scale) \div total),
        avg_downtime_hours_per_pm |-> Num(Val(downtime) \div total),
        pm_life_variance          |-> pm_life_variance(std, avg),
        chronic_score             |-> NaN,
        chronic_flag              |-> 0,
        chronic_severity          |-> "None"]

aggregate(key, rows) ==
    LET total     == agg_count(Column(rows, "pm_flex_raw_id"))
        unsched   == count_eq(Column(rows, "scheduled_flag"), 0)
        downtime  == agg_sum(Column(rows, "DOWN_WINDOW_DURATION_HR"))
        std       == agg_std(Column(rows, "CUSTOM_DELTA"))
        avg       == agg_mean(Column(rows, "CUSTOM_DELTA"))
    IN [ENTITY |-> key[1], FACILITY |-> key[2], CEID |-> key[3],
        total_pm_events           |-> total,
        unscheduled_pm_count      |-> unsched,
        total_downtime_hours      |-> downtime,
        pm_life_std_dev           |-> std,
        avg_pm_life               |-> avg,
        reclean_rate              |-> agg_mean(Column(rows, "Reclean_Label")),
        sympathy_pm_rate          |-> agg_mean(Column(rows, "Sympathy_PM")),
        unscheduled_pm_rate       |-> Num((unsched * Scale) \div total),
        avg_downtime_hours_per_pm |-> Num(Val(downtime) \div total),
        pm_life_variance          |-> pm_life_variance(std, avg),
        chronic_score             |-> NaN,
        chronic_flag              |-> 0,
        chronic_severity          |-> "None"]

\* the group keys in the sorted order groupby emits them
SortedKeys == << <<Num("E1"), Num("F1"), Num("C1")>>,
                 <<Num("E2"), Num("F1"), Num("C1")>> >>

analyze_by_entity(self, df) ==
    LET present == SelectSeq(SortedKeys, LAMBDA k : GroupRows(df, k) # <<>>)
        grouped == [i \in 1..Len(present) |-> aggregate(present[i], GroupRows(df, present[i]))]
        scored  == [i \in 1..Len(grouped) |-> calculate_chronic_score(self, grouped[i])]
    IN [i \in 1..Len(scored) |-> classify_chronic_tools(self, scored[i])]

----------------------------------------------------------------------------
(* KPIAggregator._calculate_rolling_averages_python                        *)

FacilityRank(f) == IF f = "F1" THEN 1 ELSE 2

\* ORDER BY FACILITY, ww_year, ww_number
RowBefore(a, b) ==
    \/ FacilityRank(a.FACILITY) < FacilityRank(b.FACILITY)
    \/ /\ a.FACILITY = b.FACILITY
       /\ \/ a.ww_year < b.ww_year
          \/ (a.ww_year = b.ww_year /\ a.ww_number < b.ww_number)

RECURSIVE Insert(_, _)
Insert(sorted, r) ==
    IF sorted = <<>> THEN <<r>>
    ELSE IF RowBefore(r, Head(sorted)) THEN <<r>> \o sorted
    ELSE <<Head(sorted)>> \o Insert(Tail(sorted), r)

RECURSIVE SortRows(_)
SortRows(rows) ==
    IF rows = <<>> THEN <<>> ELSE Insert(SortRows(Tail(rows)), Head(rows))

\* the last four rows of a facility frame up to position i
Window(frame, i) == SubSeq(frame, Max(1, i - 3), i)

\* rolling(window=4, min_periods=1).mean(): nulls are skipped, NaN without a value
rolling_mean(frame, f, i) ==
    LET xs == NonNull(Column(Window(frame, i), f))
    IN IF Len(xs) = 0 THEN NaN ELSE Num(SumSeq(xs) \div Len(xs))

\* rolling(window=4, min_periods=1).sum()
rolling_sum(frame, f, i) ==
    LET xs == NonNull(Column(Window(frame, i), f))
    IN IF Len(xs) = 0 THEN NaN ELSE Num(SumSeq(xs))

FacilityFrame(kpis, facility) == SelectSeq(kpis, LAMBDA r : r.FACILITY = facility)

\* the rolling columns of the row at position i of its facility frame
rolled(frame, i) ==
    [frame[i] EXCEPT !.rolling_4wk_avg_pm_life = rolling_mean(frame, "avg_pm_life", i),
                     !.rolling_4wk_pm_count = rolling_sum(frame, "total_pm_events", i),
                     !.rolling_4wk_downtime_hours = rolling_sum(frame, "total_downtime_hours", i)]

RolledFrame(frame) == [i \in 1..Len(frame) |-> rolled(frame, i)]

\* the UPDATE statements in the order the loops issue them: facility by
\* facility in order of appearance, each facility sorted by week
UpdateRows(kpis) ==
    RolledFrame(FacilityFrame(kpis, "F1")) \o RolledFrame(FacilityFrame(kpis, "F2"))

\* a NaN formats as the bare word nan, which the server rejects
StatementFails(u) ==
    \/ isna(u.rolling_4wk_avg_pm_life)
    \/ isna(u.rolling_4wk_pm_count)
    \/ isna(u.rolling_4wk_downtime_hours)

\* number of UPDATE statements executed before the first one that fails
Executed(updates) ==
    IF \E k \in 1..Len(updates) : StatementFails(updates[k])
    THEN (CHOOSE k \in 1..Len(updates) :
            /\ StatementFails(updates[k])
            /\ \A j \in 1..(k - 1) : ~StatementFails(updates[j])) - 1
    ELSE Len(updates)

\* UPDATE ... WHERE FACILITY = u.FACILITY AND YEARWW = u.YEARWW
ApplyUpdate(table, u) ==
    [i \in 1..Len(table) |->
        IF table[i].FACILITY = u.FACILITY /\ table[i].YEARWW = u.YEARWW
        THEN [table[i] EXCEPT !.rolling_4wk_avg_pm_life = u.rolling_4wk_avg_pm_life,
                              !.rolling_4wk_pm_count = u.rolling_4wk_pm_count,
                              !.rolling_4wk_downtime_hours = u.rolling_4wk_downtime_hours]
        ELSE table[i]]

RECURSIVE ApplyUpdates(_, _, _)
ApplyUpdates(table, updates, n) ==
    IF n = 0 THEN table
    ELSE ApplyUpdate(ApplyUpdates(table, updates, n - 1), updates[n])

----------------------------------------------------------------------------
(* PMFlexEnrichment and run_silver_etl                                     *)

\* " AND <conditions>" is appended to a query that has no WHERE clause
QueryMalformed(start_date, end_date, incremental) ==
    ~incremental /\ (~isna(start_date) \/ ~isna(end_date))

Enriched(enriched, r) ==
    \E i \in 1..Len(enriched) : enriched[i].source_pm_flex_raw_id = r.pm_flex_raw_id

\* a comparison with a NULL TXN_DATE selects nothing
InDateRange(r, start_date, end_date) ==
    /\ ~isna(start_date) => (~isna(r.TXN_DATE) /\ Val(r.TXN_DATE) >= Val(start_date))
    /\ ~isna(end_date) => (~isna(r.TXN_DATE) /\ Val(r.TXN_DATE) < Val(end_date))

\* the anti-join left out
load_raw_data_no_antijoin(raw, enriched, start_date, end_date, incremental) ==
    SelectSeq(raw, LAMBDA r : InDateRange(r, start_date, end_date))

load_raw_data(raw, enriched, start_date, end_date, incremental) ==
    SelectSeq(raw, LAMBDA r :
        /\ incremental => ~Enriched(enriched, r)
        /\ InDateRange(r, start_date, end_date))

\* the pm_flex_enriched row of one raw row
enrich(r) ==
    [source_pm_flex_raw_id |-> r.pm_flex_raw_id, ENTITY |-> r.ENTITY,
     TXN_DATE |-> r.TXN_DATE, YEARWW |-> r.YEARWW]

load_enriched(batch) == [i \in 1..Len(batch) |-> enrich(batch[i])]

WeekKeys == <<1, 2>>

EntityKeys == <<"E1", "E2">>

\* one pm_flex_downtime_summary row per work week of the batch
downtime_summary(batch) ==
    LET present == SelectSeq(WeekKeys, LAMBDA w : \E i \in 1..Len(batch) : batch[i].YEARWW = w)
    IN [k \in 1..Len(present) |->
          [YEARWW |-> present[k],
           total_pm_events |-> Len(SelectSeq(batch, LAMBDA r : r.YEARWW = present[k]))]]

\* one pm_flex_chronic_tools row per tool of the batch
chronic_records(batch) ==
    LET present == SelectSeq(EntityKeys, LAMBDA e : \E i \in 1..Len(batch) : batch[i].ENTITY = e)
    IN [k \in 1..Len(present) |->
          [ENTITY |-> present[k],
           total_pm_events |-> Len(SelectSeq(batch, LAMBDA r : r.ENTITY = present[k]))]]

\* int(weeks_analyzed) raises when no row of the batch has a TXN_DATE
AnalysisWindowUndefined(batch) == \A i \in 1..Len(batch) : isna(batch[i].TXN_DATE)

\* get_intel_ww_calendar(current_year - 2, 5): the fiscal years generated
calendar_years(current_year) == (current_year - 2)..(current_year + 2)

\* the calendar loaded again on every run
populate_dim_date_every_run(table, current_year) ==
    table \cup calendar_years(current_year)

\* the calendar is generated and loaded only into an empty table
populate_dim_date(table, current_year) ==
    IF table # {} THEN table ELSE calendar_years(current_year)

NoDataStats == [rows_processed |-> 0, execution_time_seconds |-> 0, status |-> "NO_DATA"]

SuccessStats(rows, enriched_rows, summary_rows, chronic_rows) ==
    [rows_processed |-> rows, enriched_rows_loaded |-> enriched_rows,
     summary_rows_created |-> summary_rows, chronic_tools_analyzed |-> chronic_rows,
     execution_time_seconds |-> 0, status |-> "SUCCESS"]

FailedStats == [status |-> "FAILED"]

\* enrich_and_load on the tables db; fail names the step whose database
\* write is refused, if any.  The result holds the tables afterwards, whether
\* the call returned or raised, the stats it returned and the batch size.
enrich_and_load(db, start_date, end_date, incremental, fail, current_year) ==
    LET batch     == load_raw_data(db.raw, db.enriched, start_date, end_date, incremental)
        step3     == [db EXCEPT !.enriched = db.enriched \o load_enriched(batch)]
        step4     == [step3 EXCEPT !.summary = step3.summary \o downtime_summary(batch)]
        step5     == [step4 EXCEPT !.chronic = step4.chronic \o chronic_records(batch)]
        step6     == [step5 EXCEPT !.dimdate = populate_dim_date(step5.dimdate, current_year)]
        Raised(d) == [db |-> d, outcome |-> "raised", stats |-> FailedStats,
                      empty_batch |-> FALSE]
    IN IF QueryMalformed(start_date, end_date, incremental) THEN Raised(db)
       ELSE IF Len(batch) = 0
            THEN [db |-> db, outcome |-> "returned", stats |-> NoDataStats,
                  empty_batch |-> TRUE]
       ELSE IF fail = "step4" THEN Raised(step3)
       ELSE IF fail = "step5" \/ AnalysisWindowUndefined(batch) THEN Raised(step4)
       ELSE [db |-> step6, outcome |-> "returned",
             stats |-> SuccessStats(Len(batch), Len(batch),
                                    Len(downtime_summary(batch)),
                                    Len(chronic_records(batch))),
             empty_batch |-> FALSE]

\* the truncation reaching pm_flex_raw as well
truncate_silver_and_raw(db) ==
    [db EXCEPT !.raw = <<>>, !.enriched = <<>>, !.summary = <<>>, !.chronic = <<>>]

\* connector.truncate_table on the three silver tables
truncate_silver(db) == [db EXCEPT !.enriched = <<>>, !.summary = <<>>, !.chronic = <<>>]

\* the keys of stats that run_silver_etl formats into its log lines
LoggedKeys == {"rows_processed", "enriched_rows_loaded", "summary_rows_created",
               "chronic_tools_analyzed", "execution_time_seconds"}

\* run_silver_etl: optional truncation, enrich_and_load, then the log lines;
\* a key missing from stats raises KeyError
run_silver_etl(db, start_date, end_date, incremental, full_refresh, fail, current_year) ==
    LET before == IF full_refresh THEN truncate_silver(db) ELSE db
        inc    == IF full_refresh THEN FALSE ELSE incremental
        res    == enrich_and_load(before, start_date, end_date, inc, fail, current_year)
    IN IF res.outcome = "returned" /\ ~(LoggedKeys \subseteq DOMAIN res.stats)
       THEN [res EXCEPT !.outcome = "raised"]
       ELSE res

----------------------------------------------------------------------------
(* KPIAggregator.create_kpi_tables and run_gold_etl                        *)

\* the weeks already in fact_pm_kpis_by_site_ww loaded again
load_enriched_data_all_weeks(enriched, site, incremental) == enriched

\* the enriched rows whose (YEARWW, FACILITY) has no row in
\* fact_pm_kpis_by_site_ww yet, or all of them
load_enriched_data(enriched, site, incremental) ==
    SelectSeq(enriched, LAMBDA e :
        incremental => ~\E i \in 1..Len(site) : site[i].YEARWW = e.YEARWW)

\* one KPI row per (facility, work week) of the batch; the CEID table has
\* the same groups while every event is of one chamber
week_kpis(batch) ==
    LET present == SelectSeq(WeekKeys, LAMBDA w : \E i \in 1..Len(batch) : batch[i].YEARWW = w)
    IN [k \in 1..Len(present) |->
          [YEARWW |-> present[k],
           total_pm_events |-> Len(SelectSeq(batch, LAMBDA r : r.YEARWW = present[k]))]]

RECURSIVE chronic_history(_, _)
\* one history row per work week of the batch and record of pm_flex_chronic_tools
chronic_history(weeks, chronic) ==
    IF weeks = <<>> THEN <<>>
    ELSE [i \in 1..Len(chronic) |-> [ENTITY |-> chronic[i].ENTITY, YEARWW |-> Head(weeks).YEARWW]]
         \o chronic_history(Tail(weeks), chronic)

GoldStats(rows, site_rows, ceid_rows, history_rows) ==
    [rows_processed |-> rows, site_kpi_rows |-> site_rows, ceid_kpi_rows |-> ceid_rows,
     part_summary_rows |-> 0, chronic_history_rows |-> history_rows,
     execution_time_seconds |-> 0, status |-> "SUCCESS"]

\* create_kpi_tables on the gold tables facts; fail = "rolling" when both
\* the stored procedure and the Python rolling pass raise
create_kpi_tables(facts, enriched, chronic, incremental, fail) ==
    LET batch == load_enriched_data(enriched, facts.site, incremental)
        step2 == [facts EXCEPT !.site = facts.site \o week_kpis(batch)]
        step3 == [step2 EXCEPT !.ceid = step2.ceid \o week_kpis(batch)]
        step5 == [step3 EXCEPT !.history =
                     step3.history \o chronic_history(week_kpis(batch), chronic)]
    IN IF Len(batch) = 0
       THEN [facts |-> facts, outcome |-> "returned", stats |-> NoDataStats]
       ELSE IF fail = "rolling"
       THEN [facts |-> step5, outcome |-> "raised", stats |-> FailedStats]
       ELSE [facts |-> step5, outcome |-> "returned",
             stats |-> GoldStats(Len(batch), Len(week_kpis(batch)), Len(week_kpis(batch)),
                                 Len(chronic_history(week_kpis(batch), chronic)))]

\* the keys of stats that run_gold_etl formats into its log lines
GoldLoggedKeys == {"rows_processed", "site_kpi_rows", "ceid_kpi_rows",
                   "part_summary_rows", "chronic_history_rows", "execution_time_seconds"}

\* connector.truncate_table on the gold tables
truncate_gold(facts) == [facts EXCEPT !.site = <<>>, !.ceid = <<>>, !.history = <<>>]

\* run_gold_etl: optional truncation, create_kpi_tables, then the log lines
run_gold_etl(facts, enriched, chronic, incremental, full_refresh, fail) ==
    LET before == IF full_refresh THEN truncate_gold(facts) ELSE facts
        inc    == IF full_refresh THEN FALSE ELSE incremental
        res    == create_kpi_tables(before, enriched, chronic, inc, fail)
    IN IF res.outcome = "returned" /\ ~(GoldLoggedKeys \subseteq DOMAIN res.stats)
       THEN [res EXCEPT !.outcome = "raised"]
       ELSE res

----------------------------------------------------------------------------
(* run_bronze_etl and run_full_pipeline                                    *)

\* load_file: schema validation, data quality checks, then the append to
\* pm_flex_raw, numbered by the identity column
run_bronze_etl(raw, file) ==
    IF ~file.columns_ok
    THEN [raw |-> raw, outcome |-> "raised", error |-> "SchemaValidationError"]
    ELSE IF Len(file.rows) = 0
    THEN [raw |-> raw, outcome |-> "raised", error |-> "DataQualityError"]
    ELSE [raw |-> raw \o [i \in 1..Len(file.rows) |->
                            [pm_flex_raw_id |-> Len(raw) + i,
                             ENTITY |-> file.rows[i].ENTITY,
                             TXN_DATE |-> file.rows[i].TXN_DATE,
                             YEARWW |-> file.rows[i].YEARWW]],
          outcome |-> "returned", error |-> "none"]

\* run_full_pipeline: each enabled stage in turn; a failed bronze or silver
\* stage is logged and raised again only when no later stage is enabled, a
\* failed gold stage always
run_full_pipeline(db, facts, bronze, silver, gold, full_refresh, file, fail) ==
    LET b    == IF bronze THEN run_bronze_etl(db.raw, file)
                ELSE [raw |-> db.raw, outcome |-> "skipped", error |-> "none"]
        stop1 == b.outcome = "raised" /\ ~silver /\ ~gold
        db1  == [db EXCEPT !.raw = b.raw]
        s    == IF silver /\ ~stop1
                THEN run_silver_etl(db1, NaN, NaN, ~full_refresh, full_refresh, fail, 0)
                ELSE [db |-> db1, outcome |-> "skipped", stats |-> FailedStats,
                      empty_batch |-> FALSE]
        stop2 == stop1 \/ (s.outcome = "raised" /\ ~gold)
        g    == IF gold /\ ~stop2
                THEN run_gold_etl(facts, s.db.enriched, s.db.chronic,
                                  ~full_refresh, full_refresh, fail)
                ELSE [facts |-> facts, outcome |-> "skipped", stats |-> FailedStats]
        raised == stop2 \/ g.outcome = "raised"
    IN [db |-> s.db, facts |-> g.facts,
        bronze |-> b.outcome, bronze_error |-> b.error,
        silver |-> s.outcome, gold |-> g.outcome,
        status |-> IF raised THEN "FAILED" ELSE "SUCCESS"]

----------------------------------------------------------------------------
(* Bounded inputs                                                          *)

\* largest CUSTOM_DELTA of the timing inputs
MaxDelta == 28

\* largest reclean rate of the scorer inputs, in multiples of 1.0
MaxRate == 2

\* largest number of events handed to analyze_by_entity
MaxEvents == 5

\* largest number of weeks one facility has in fact_pm_kpis_by_site_ww
MaxWeeks == 6

\* largest number of rows of pm_flex_raw
MaxRaw == 2

\* largest number of enrichment calls or pipeline runs
MaxRuns == 2

\* largest number of rows of an input file
MaxFileRows == 2

ThresholdValues == {-15, 15, 30}

TimingConfigs == UNION {[K -> ThresholdValues] : K \in SUBSET TimingKeys}

MedianValues == {NaN, Num(-20), Num(0), Num(5), Num(20)}

DeltaValues == {NaN} \cup {Num(v) : v \in 0..MaxDelta}

RowInputs ==
    [CUSTOM_DELTA : DeltaValues, Median_Delta : MedianValues,
     pm_life_vs_target : {NaN}, pm_life_vs_target_pct : {NaN},
     pm_timing_classification : {"unset"}]

ChronicConfigs ==
    { <<>>,
      [chronic_tool_threshold |-> [unscheduled_pm_rate |-> 500, min_pm_events |-> 4],
       score_weights |-> [unscheduled_pm_rate |-> 200, pm_life_variance |-> 200,
                          downtime_hours |-> 200, reclean_rate |-> 200,
                          sympathy_pm_rate |-> 200],
       severity_thresholds |-> [low |-> 40, medium |-> 50, high |-> 60, critical |-> 80]],
      [score_weights |-> [reclean_rate |-> 500]] }

AggregateInputs ==
    [ENTITY : {Num("E1")}, FACILITY : {Num("F1")}, CEID : {Num("C1")},
     total_pm_events : {4, 5},
     unscheduled_pm_count : {0},
     total_downtime_hours : {NaN},
     pm_life_std_dev : {NaN},
     avg_pm_life : {NaN},
     reclean_rate : {Num(k * Scale) : k \in 0..MaxRate},
     sympathy_pm_rate : {Num(0), Num(Scale)},
     unscheduled_pm_rate : {Num(300), Num(400)},
     avg_downtime_hours_per_pm : {Num(0), Num(20 * Scale)},
     pm_life_variance : {NaN, Num(0), Num(500)},
     chronic_score : {NaN},
     chronic_flag : {0},
     chronic_severity : {"None"}]

\* the idle values of the variables a specification does not use
IdleTiming ==
    /\ timing = PMTimingClassifier_init(<<>>)
    /\ row = [CUSTOM_DELTA |-> NaN, Median_Delta |-> NaN, pm_life_vs_target |-> NaN,
              pm_life_vs_target_pct |-> NaN, pm_timing_classification |-> "unset"]

IdleChronic ==
    /\ analyzer = ChronicToolAnalyzer_init(<<>>)
    /\ events = <<>>
    /\ entity_metrics = <<>>

IdleRolling ==
    /\ fact_site = <<>>
    /\ rolling_result = "none"

NoRun == [kind |-> "none"]

\* a well-formed file without rows
NoFile == [columns_ok |-> TRUE, rows |-> <<>>]

NoFacts == [site |-> <<>>, ceid |-> <<>>, history |-> <<>>]

IdlePipeline ==
    /\ pm_flex_raw = <<>>
    /\ pm_flex_enriched = <<>>
    /\ pm_flex_downtime_summary = <<>>
    /\ pm_flex_chronic_tools = <<>>
    /\ DimDate = {}
    /\ last_run = NoRun
    /\ raw_added = FALSE
    /\ run_count = 0
    /\ input_file = NoFile
    /\ fact_tables = NoFacts
    /\ last_pipeline = NoRun

----------------------------------------------------------------------------
(* SpecTiming: PMTimingClassifier.classify_timing on one event row         *)

InitTiming ==
    /\ pc = "input"
    /\ timing \in {PMTimingClassifier_init(c) : c \in TimingConfigs}
    /\ row \in RowInputs
    /\ IdleChronic /\ IdleRolling /\ IdlePipeline

ClassifyTiming ==
    /\ pc = "input"
    /\ row' = classify_timing(timing, row)
    /\ pc' = "done"
    /\ UNCHANGED <<timing, chronicVars, rollingVars, pipelineVars>>

NextTiming == ClassifyTiming

SpecTiming == InitTiming /\ [][NextTiming]_vars

----------------------------------------------------------------------------
(* SpecChronic: calculate_chronic_score, then classify_chronic_tools       *)

InitChronic ==
    /\ pc = "input"
    /\ analyzer \in {ChronicToolAnalyzer_init(c) : c \in ChronicConfigs}
    /\ entity_metrics \in {<<a, b>> : a \in AggregateInputs, b \in AggregateInputs}
    /\ events = <<>>
    /\ IdleTiming /\ IdleRolling /\ IdlePipeline

CalculateChronicScore ==
    /\ pc = "input"
    /\ entity_metrics' = [i \in 1..Len(entity_metrics) |->
                            calculate_chronic_score(analyzer, entity_metrics[i])]
    /\ pc' = "scored"
    /\ UNCHANGED <<analyzer, events, timingVars, rollingVars, pipelineVars>>

ClassifyChronicTools ==
    /\ pc = "scored"
    /\ entity_metrics' = [i \in 1..Len(entity_metrics) |->
                            classify_chronic_tools(analyzer, entity_metrics[i])]
    /\ pc' = "done"
    /\ UNCHANGED <<analyzer, events, timingVars, rollingVars, pipelineVars>>

NextChronic == CalculateChronicScore \/ ClassifyChronicTools

SpecChronic == InitChronic /\ [][NextChronic]_vars

----------------------------------------------------------------------------
(* SpecEntity: ChronicToolAnalyzer.analyze_by_entity on a frame of events  *)

DowntimeTypes == {Num("Scheduled"), Num("UNSCHEDULED"), Num("Repair")}

\* who the events belong to: one tool, two tools in turn, or a first event without ENTITY
KeyProfiles == {"one", "two", "null"}

\* the CUSTOM_DELTA / Reclean_Label columns: constant, alternating, or null after the first event
DeltaProfiles == {"flat", "mixed", "sparse"}

EventEntity(kp, i) ==
    IF kp = "null" /\ i = 1 THEN NaN
    ELSE IF kp = "two" /\ i % 2 = 0 THEN Num("E2")
    ELSE Num("E1")

EventDelta(dp, i) ==
    IF dp = "flat" THEN Num(4)
    ELSE IF dp = "mixed" THEN (IF i % 2 = 1 THEN Num(1) ELSE Num(4))
    ELSE IF i = 1 THEN Num(4) ELSE NaN

EventReclean(dp, i) ==
    IF dp = "flat" THEN Num(0)
    ELSE IF dp = "mixed" THEN Num(i % 2)
    ELSE Num(1)

\* a classified event: the raw columns plus what classify_scheduled added
Event(kp, dp, types, i) ==
    classify_scheduled(
        [pm_flex_raw_id |-> Num(i),
         ENTITY |-> EventEntity(kp, i), FACILITY |-> Num("F1"), CEID |-> Num("C1"),
         DOWNTIME_TYPE |-> types[i],
         scheduled_flag |-> 0, scheduled_category |-> "unset",
         DOWN_WINDOW_DURATION_HR |-> Num(2 * i),
         CUSTOM_DELTA |-> EventDelta(dp, i),
         Reclean_Label |-> EventReclean(dp, i),
         Sympathy_PM |-> Num(0)])

EventFrames ==
    UNION { { [i \in 1..n |-> Event(kp, dp, types, i)] :
                kp \in KeyProfiles, dp \in DeltaProfiles, types \in [1..n -> DowntimeTypes] }
            : n \in 1..MaxEvents }

InitEntity ==
    /\ pc = "input"
    /\ analyzer \in {ChronicToolAnalyzer_init(c) : c \in ChronicConfigs}
    /\ events \in EventFrames
    /\ entity_metrics = <<>>
    /\ IdleTiming /\ IdleRolling /\ IdlePipeline

AnalyzeByEntity ==
    /\ pc = "input"
    /\ entity_metrics' = analyze_by_entity(analyzer, events)
    /\ pc' = "done"
    /\ UNCHANGED <<analyzer, events, timingVars, rollingVars, pipelineVars>>

NextEntity == AnalyzeByEntity

SpecEntity == InitEntity /\ [][NextEntity]_vars

----------------------------------------------------------------------------
(* SpecRolling: the Python rolling pass over fact_pm_kpis_by_site_ww       *)

\* the week p - 1 weeks after <<year, number>>, 52 weeks to the year
WeekAt(start, p) ==
    LET n == start[2] + p - 1
    IN <<start[1] + (n - 1) \div 52, ((n - 1) % 52) + 1>>

\* what _create_site_kpis wrote for one facility and week: a week whose
\* events all lack CUSTOM_DELTA, a week on a ramp of 10 per week, a flat week
KpiKinds == {"null", "ramp", "flat"}

SiteRow(facility, start, p, kind) ==
    [FACILITY |-> facility,
     ww_year |-> WeekAt(start, p)[1],
     ww_number |-> WeekAt(start, p)[2],
     YEARWW |-> WeekAt(start, p),
     avg_pm_life |-> IF kind = "null" THEN NaN
                     ELSE IF kind = "ramp" THEN Num(10 * p * Scale)
                     ELSE Num(40 * Scale),
     total_pm_events |-> IF kind = "null" THEN Num(1)
                         ELSE IF kind = "ramp" THEN Num(p) ELSE Num(5),
     total_downtime_hours |-> IF kind = "null" THEN Num(0)
                              ELSE IF kind = "ramp" THEN Num(p * Scale)
                              ELSE Num(7 * Scale),
     rolling_4wk_avg_pm_life |-> NaN,
     rolling_4wk_pm_count |-> NaN,
     rolling_4wk_downtime_hours |-> NaN]

Reverse(q) == [i \in 1..Len(q) |-> q[Len(q) + 1 - i]]

WeekStarts == {<<2024, 51>>, <<2025, 1>>}

\* tables with 1..MaxWeeks consecutive weeks of F1 and at most one week of
\* F2, stored in insertion order or in the reverse of it
SiteTables ==
    UNION { { IF rev THEN Reverse(f1 \o f2) ELSE f1 \o f2 :
                f1 \in { [p \in 1..n |-> SiteRow("F1", start, p, kinds[p])] :
                            kinds \in [1..n -> KpiKinds] },
                f2 \in {<<>>} \cup { <<SiteRow("F2", start, 1, k)>> : k \in KpiKinds },
                rev \in BOOLEAN }
            : n \in 1..MaxWeeks, start \in WeekStarts }

InitRolling ==
    /\ pc = "input"
    /\ fact_site \in SiteTables
    /\ rolling_result = "none"
    /\ IdleTiming /\ IdleChronic /\ IdlePipeline

\* the whole pass: fetch in key order, roll per facility, update row by row
\* until a statement fails
CalculateRollingAveragesPython ==
    /\ pc = "input"
    /\ LET kpis    == SortRows(fact_site)
           updates == UpdateRows(kpis)
           done    == Executed(updates)
       IN /\ fact_site' = ApplyUpdates(fact_site, updates, done)
          /\ rolling_result' = IF done < Len(updates) THEN "raised" ELSE "returned"
    /\ pc' = "done"
    /\ UNCHANGED <<timingVars, chronicVars, pipelineVars>>

NextRolling == CalculateRollingAveragesPython

SpecRolling == InitRolling /\ [][NextRolling]_vars

----------------------------------------------------------------------------
(* Spec: bronze loads and silver enrichment runs over the tables           *)

\* the rows a file can hold: a tool, and a transaction date with its work week
RawChoices ==
    { [ENTITY |-> e, TXN_DATE |-> dw[1], YEARWW |-> dw[2]] :
        e \in {"E1", "E2"}, dw \in {<<NaN, 1>>, <<Num(2), 2>>} }

DateArgs == {NaN, Num(2)}

\* the steps whose database write can be refused
FailPoints == {"none", "step4", "step5"}

Database ==
    [raw |-> pm_flex_raw, enriched |-> pm_flex_enriched,
     summary |-> pm_flex_downtime_summary, chronic |-> pm_flex_chronic_tools,
     dimdate |-> DimDate]

Init ==
    /\ pc = "idle"
    /\ IdleTiming /\ IdleChronic /\ IdleRolling /\ IdlePipeline

\* PMFlexRawLoader._load_to_sql: a row of a file is appended to pm_flex_raw
\* and numbered by the identity column
LoadRaw ==
    /\ Len(pm_flex_raw) < MaxRaw
    /\ \E r \in RawChoices :
         pm_flex_raw' = Append(pm_flex_raw,
                               [pm_flex_raw_id |-> Len(pm_flex_raw) + 1,
                                ENTITY |-> r.ENTITY, TXN_DATE |-> r.TXN_DATE,
                                YEARWW |-> r.YEARWW])
    /\ raw_added' = TRUE
    /\ UNCHANGED <<pc, timingVars, chronicVars, rollingVars, pm_flex_enriched,
                   pm_flex_downtime_summary, pm_flex_chronic_tools, DimDate,
                   last_run, run_count, fullVars>>

\* TRUE when the call before this one returned, covered the same dates, and
\* pm_flex_raw has not grown since
RepeatsPrevious(start_date, end_date) ==
    /\ last_run.kind # "none"
    /\ last_run.outcome = "returned"
    /\ last_run.start_date = start_date
    /\ last_run.end_date = end_date
    /\ ~raw_added

\* TRUE while every call made so far was incremental
OnlyIncrementalSoFar == last_run.kind = "none" \/ last_run.only_incremental

\* the tables after a call and the record of the call
Record(kind, start_date, end_date, incremental, res) ==
    /\ pm_flex_enriched' = res.db.enriched
    /\ pm_flex_downtime_summary' = res.db.summary
    /\ pm_flex_chronic_tools' = res.db.chronic
    /\ DimDate' = res.db.dimdate
    /\ last_run' = [kind |-> kind, start_date |-> start_date, end_date |-> end_date,
                    incremental |-> incremental,
                    repeats_previous |-> RepeatsPrevious(start_date, end_date),
                    only_incremental |-> incremental /\ OnlyIncrementalSoFar,
                    outcome |-> res.outcome, status |-> res.stats.status,
                    empty_batch |-> res.empty_batch,
                    rows_processed |-> Get(res.stats, "rows_processed", -1),
                    enriched_appended |-> Len(res.db.enriched) - Len(pm_flex_enriched),
                    summary_appended |-> Len(res.db.summary) - Len(pm_flex_downtime_summary),
                    chronic_appended |-> Len(res.db.chronic) - Len(pm_flex_chronic_tools)]
    /\ raw_added' = FALSE
    /\ run_count' = run_count + 1
    /\ UNCHANGED <<pc, timingVars, chronicVars, rollingVars, pm_flex_raw, fullVars>>

\* a direct call of PMFlexEnrichment.enrich_and_load, in the year of the first run
EnrichAndLoad ==
    /\ run_count < MaxRuns
    /\ \E start_date \in DateArgs, end_date \in DateArgs, incremental \in BOOLEAN,
          fail \in FailPoints :
         Record("enrich_and_load", start_date, end_date, incremental,
                enrich_and_load(Database, start_date, end_date, incremental, fail, 0))

\* a call of the stage entry point
RunSilverEtl ==
    /\ run_count < MaxRuns
    /\ \E start_date \in DateArgs, end_date \in DateArgs, incremental \in BOOLEAN,
          full_refresh \in BOOLEAN, fail \in FailPoints :
         Record("run_silver_etl", start_date, end_date,
                incremental /\ ~full_refresh,
                run_silver_etl(Database, start_date, end_date, incremental,
                               full_refresh, fail, 0))

Next == LoadRaw \/ EnrichAndLoad \/ RunSilverEtl

Spec == Init /\ [][Next]_vars

----------------------------------------------------------------------------
(* SpecPipeline: run_full_pipeline over the input file and all tables      *)

\* the files discovery can find: with or without the expected columns
Files ==
    { [columns_ok |-> TRUE, rows |-> rows] :
        rows \in UNION {[1..n -> RawChoices] : n \in 0..MaxFileRows} }
    \cup {[columns_ok |-> FALSE, rows |-> <<>>]}

PipelineFailPoints == {"none", "rolling"}

InitPipeline == Init

\* a new weekly PM_Flex file replaces the one discovery found before
DropFile ==
    /\ run_count < MaxRuns
    /\ \E file \in Files \ {input_file} : input_file' = file
    /\ UNCHANGED <<pc, timingVars, chronicVars, rollingVars, pm_flex_raw,
                   pm_flex_enriched, pm_flex_downtime_summary, pm_flex_chronic_tools,
                   DimDate, last_run, raw_added, run_count, fact_tables,
                   last_pipeline>>

FactRows(facts) == Len(facts.site) + Len(facts.ceid) + Len(facts.history)

SilverRows(db) == Len(db.enriched) + Len(db.summary) + Len(db.chronic)

\* TRUE when the run before this one ran the three stages, each returned,
\* and discovery still finds the same file
RepeatsSuccessfulRun ==
    /\ last_pipeline.kind # "none"
    /\ last_pipeline.status = "SUCCESS"
    /\ last_pipeline.bronze = "returned"
    /\ last_pipeline.silver = "returned"
    /\ last_pipeline.gold = "returned"
    /\ last_pipeline.file = input_file

RunFullPipeline ==
    /\ run_count < MaxRuns
    /\ \E bronze \in BOOLEAN, silver \in BOOLEAN, gold \in BOOLEAN,
          full_refresh \in BOOLEAN, fail \in PipelineFailPoints :
         \E res \in {run_full_pipeline(Database, fact_tables, bronze, silver, gold,
                                        full_refresh, input_file, fail)} :
            /\ pm_flex_raw' = res.db.raw
            /\ pm_flex_enriched' = res.db.enriched
            /\ pm_flex_downtime_summary' = res.db.summary
            /\ pm_flex_chronic_tools' = res.db.chronic
            /\ DimDate' = res.db.dimdate
            /\ fact_tables' = res.facts
            /\ last_pipeline' =
                 [kind |-> "run_full_pipeline",
                  stages |-> <<bronze, silver, gold>>, full_refresh |-> full_refresh,
                  file |-> input_file,
                  repeats_successful |-> RepeatsSuccessfulRun,
                  only_incremental |-> ~full_refresh /\ (last_pipeline.kind = "none"
                                                         \/ last_pipeline.only_incremental),
                  bronze |-> res.bronze, bronze_error |-> res.bronze_error,
                  silver |-> res.silver, gold |-> res.gold, status |-> res.status,
                  raw_appended |-> Len(res.db.raw) - Len(pm_flex_raw),
                  silver_appended |-> SilverRows(res.db) - SilverRows(Database),
                  gold_appended |-> FactRows(res.facts) - FactRows(fact_tables)]
    /\ run_count' = run_count + 1
    /\ UNCHANGED <<pc, timingVars, chronicVars, rollingVars, last_run, raw_added,
                   input_file>>

NextPipeline == DropFile \/ RunFullPipeline

SpecPipeline == InitPipeline /\ [][NextPipeline]_vars

----------------------------------------------------------------------------
(* Claims on the timing classifier                                         *)

TargetMissing == isna(row.Median_Delta) \/ Val(row.Median_Delta) <= 0

Pct == row.pm_life_vs_target_pct

Class == row.pm_timing_classification

\* C1 as stated: after classify_timing, pm_life_vs_target_pct is NaN iff
\* Median_Delta is null or <= 0, and the classification is 'Unknown' for
\* exactly those rows, whatever CUSTOM_DELTA is.
C1_Original ==
    pc = "done" =>
        /\ isna(Pct) <=> TargetMissing
        /\ Class = "Unknown" <=> TargetMissing

\* C1 amended: pm_life_vs_target_pct is NaN, and the classification
\* 'Unknown', iff Median_Delta is null or <= 0 or CUSTOM_DELTA is null.
C1_UnknownIffNoTargetOrNoActual ==
    pc = "done" =>
        /\ isna(Pct) <=> (TargetMissing \/ isna(row.CUSTOM_DELTA))
        /\ Class = "Unknown" <=> (TargetMissing \/ isna(row.CUSTOM_DELTA))

C1_Witness ==
    /\ pc = "done"
    /\ ~isna(row.CUSTOM_DELTA)
    /\ row.Median_Delta = Num(0)
    /\ isna(Pct)
    /\ Class = "Unknown"

DefaultThresholds == timing = PMTimingClassifier_init(<<>>)

\* C2: with the default thresholds every defined deviation below -15 is
\* 'Early', every one in [-15, 15] 'On-Time', every one in (15, 30] 'Late'
\* and every one above 30 'Overdue'.
C2_DefaultBands ==
    (pc = "done" /\ DefaultThresholds /\ ~isna(Pct)) =>
        /\ Val(Pct) < -15 * Scale => Class = "Early"
        /\ (-15 * Scale <= Val(Pct) /\ Val(Pct) <= 15 * Scale) => Class = "On-Time"
        /\ (15 * Scale < Val(Pct) /\ Val(Pct) <= 30 * Scale) => Class = "Late"
        /\ Val(Pct) > 30 * Scale => Class = "Overdue"
        /\ Pct = Num(-20 * Scale) => Class = "Early"
        /\ Pct = Num(0) => Class = "On-Time"
        /\ Pct = Num(20 * Scale) => Class = "Late"
        /\ Pct = Num(40 * Scale) => Class = "Overdue"

C2_Witness ==
    /\ pc = "done"
    /\ DefaultThresholds
    /\ Pct = Num(-15 * Scale)
    /\ Class = "On-Time"

OrderedThresholds ==
    /\ timing.early_threshold <= timing.on_time_min
    /\ timing.on_time_min <= timing.on_time_max
    /\ timing.on_time_max <= timing.late_threshold
    /\ timing.late_threshold <= timing.overdue_threshold

IsEarly   == Val(Pct) < timing.early_threshold * Scale
IsOnTime  == timing.on_time_min * Scale <= Val(Pct) /\ Val(Pct) <= timing.on_time_max * Scale
IsLate    == timing.late_threshold * Scale < Val(Pct) /\ Val(Pct) <= timing.overdue_threshold * Scale
IsOverdue == Val(Pct) > timing.overdue_threshold * Scale

\* C10: for ordered thresholds and a defined deviation, each of the four
\* bands decides the category on its own, and every value outside the four
\* bands is 'On-Time'.
C10_BandsAndFallback ==
    (pc = "done" /\ OrderedThresholds /\ ~isna(Pct)) =>
        /\ IsEarly => Class = "Early"
        /\ IsOnTime => Class = "On-Time"
        /\ IsLate => Class = "Late"
        /\ IsOverdue => Class = "Overdue"
        /\ ~(IsEarly \/ IsOnTime \/ IsLate \/ IsOverdue) => Class = "On-Time"

C10_Witness ==
    /\ pc = "done"
    /\ OrderedThresholds
    /\ ~isna(Pct)
    /\ timing.on_time_max * Scale < Val(Pct)
    /\ Val(Pct) < timing.late_threshold * Scale
    /\ Class = "On-Time"

----------------------------------------------------------------------------
(* Claims on the chronic scorer                                            *)

WeightsSumToOne ==
    analyzer.weight_unscheduled + analyzer.weight_variance + analyzer.weight_downtime
        + analyzer.weight_reclean + analyzer.weight_sympathy = Scale

RatesNonNegative(m) ==
    /\ ge(m.unscheduled_pm_rate, 0)
    /\ ge(m.pm_life_variance, 0)
    /\ ge(m.avg_downtime_hours_per_pm, 0)
    /\ ge(m.reclean_rate, 0)
    /\ ge(m.sympathy_pm_rate, 0)

Rows == {entity_metrics[i] : i \in 1..Len(entity_metrics)}

\* C3: once scored, every aggregate with non-negative rates has a
\* chronic_score in [0, 100] when the weights sum to 1.0.
C3_ScoreWithinBounds ==
    (pc \in {"scored", "done"} /\ WeightsSumToOne) =>
        \A m \in Rows :
            RatesNonNegative(m) =>
                /\ ~isna(m.chronic_score)
                /\ 0 <= Val(m.chronic_score)
                /\ Val(m.chronic_score) <= 100 * Scale

EnoughEvents(m) == m.total_pm_events >= analyzer.min_pm_events

OverThreshold(m) ==
    \/ (~isna(m.unscheduled_pm_rate)
        /\ Val(m.unscheduled_pm_rate) > analyzer.unscheduled_pm_threshold)
    \/ (~isna(m.pm_life_variance)
        /\ Val(m.pm_life_variance) > analyzer.pm_variance_threshold)

\* C4: after classify_chronic_tools, chronic_flag is 1 iff the aggregate has
\* at least min_pm_events events and one of the two rates exceeds its
\* threshold; below min_pm_events the flag is 0.
C4_FlagIffEnoughEventsAndOverThreshold ==
    pc = "done" =>
        \A m \in Rows :
            /\ m.chronic_flag = 1 <=> (EnoughEvents(m) /\ OverThreshold(m))
            /\ m.chronic_flag \in {0, 1}
            /\ ~EnoughEvents(m) => m.chronic_flag = 0

C4_Witness ==
    /\ pc = "done"
    /\ \E m \in Rows : ~EnoughEvents(m) /\ OverThreshold(m) /\ m.chronic_flag = 0
    /\ \E m \in Rows : EnoughEvents(m) /\ OverThreshold(m) /\ m.chronic_flag = 1

SeverityRank(sev) ==
    CASE sev = "Low" -> 1
      [] sev = "Medium" -> 2
      [] sev = "High" -> 3
      [] sev = "Critical" -> 4
      [] OTHER -> 0

\* C5: chronic_severity is None iff chronic_flag is 0, a flagged record has
\* one of the four tiers, and of two flagged records the one with the higher
\* chronic_score never has the lower tier.
C5_SeverityOnlyWhenFlaggedAndMonotone ==
    pc = "done" =>
        /\ \A m \in Rows :
              /\ m.chronic_severity = "None" <=> m.chronic_flag = 0
              /\ m.chronic_flag = 1 =>
                    m.chronic_severity \in {"Low", "Medium", "High", "Critical"}
        /\ \A a, b \in Rows :
              (a.chronic_flag = 1 /\ b.chronic_flag = 1
               /\ ~isna(a.chronic_score) /\ ~isna(b.chronic_score)
               /\ Val(a.chronic_score) > Val(b.chronic_score))
              => SeverityRank(a.chronic_severity) >= SeverityRank(b.chronic_severity)

C5_Witness ==
    /\ pc = "done"
    /\ \E a, b \in Rows :
          /\ a.chronic_flag = 1 /\ b.chronic_flag = 1
          /\ a.chronic_severity = "High" /\ b.chronic_severity = "Medium"
          /\ Val(a.chronic_score) > Val(b.chronic_score)

OrderedCutoffs ==
    /\ analyzer.severity_low < analyzer.severity_medium
    /\ analyzer.severity_medium < analyzer.severity_high
    /\ analyzer.severity_high < analyzer.severity_critical

\* C11: with ascending cutoffs a flagged record is 'Critical' from the
\* critical cutoff up, 'High' from the high cutoff up to it, 'Medium' from the
\* medium cutoff up to the high one, and 'Low' for every other score, the
\* scores under the low cutoff included.
C11_SeverityByCutoffs ==
    (pc = "done" /\ OrderedCutoffs) =>
        \A m \in Rows :
            (m.chronic_flag = 1 /\ ~isna(m.chronic_score)) =>
                LET score == Val(m.chronic_score)
                IN /\ score >= analyzer.severity_critical * Scale
                        => m.chronic_severity = "Critical"
                   /\ (analyzer.severity_high * Scale <= score
                       /\ score < analyzer.severity_critical * Scale)
                        => m.chronic_severity = "High"
                   /\ (analyzer.severity_medium * Scale <= score
                       /\ score < analyzer.severity_high * Scale)
                        => m.chronic_severity = "Medium"
                   /\ score < analyzer.severity_medium * Scale
                        => m.chronic_severity = "Low"

\* a flagged record scored under the low cutoff
C11_Witness ==
    /\ pc = "done"
    /\ OrderedCutoffs
    /\ \E m \in Rows :
          /\ m.chronic_flag = 1
          /\ ~isna(m.chronic_score)
          /\ Val(m.chronic_score) < analyzer.severity_low * Scale
          /\ m.chronic_severity = "Low"

----------------------------------------------------------------------------
(* Claims on analyze_by_entity                                             *)

CountCategory(cat) ==
    Len(SelectSeq(events, LAMBDA e : e.scheduled_category = cat))

\* one tool with five events, two of them unscheduled and three scheduled
FiveEventsTwoUnscheduled ==
    /\ Len(events) = 5
    /\ \A i \in 1..Len(events) : HasKey(events[i]) /\ GroupKey(events[i]) = GroupKey(events[1])
    /\ CountCategory("Unscheduled") = 2
    /\ CountCategory("Scheduled") = 3

\* C9: one tool with 5 events, 2 of them unscheduled, analysed with
\* threshold 0.30 and min_pm_events 5, gives one record with 5 events,
\* rate 0.4, chronic_flag 1 and a severity.
C9_FiveEventsTwoUnscheduledIsChronic ==
    (pc = "done" /\ FiveEventsTwoUnscheduled
     /\ analyzer.unscheduled_pm_threshold = 300 /\ analyzer.min_pm_events = 5) =>
        /\ Len(entity_metrics) = 1
        /\ entity_metrics[1].total_pm_events = 5
        /\ entity_metrics[1].unscheduled_pm_count = 2
        /\ entity_metrics[1].unscheduled_pm_rate = Num(400)
        /\ entity_metrics[1].chronic_flag = 1
        /\ entity_metrics[1].chronic_severity \in {"Low", "Medium", "High", "Critical"}

C9_Witness ==
    /\ pc = "done"
    /\ FiveEventsTwoUnscheduled
    /\ analyzer.unscheduled_pm_threshold = 300 /\ analyzer.min_pm_events = 5
    /\ Len(entity_metrics) = 1
    /\ entity_metrics[1].chronic_flag = 1

\* C12: every record analyze_by_entity produces holds a defined
\* pm_life_variance, the standard deviation of CUSTOM_DELTA over its mean
\* when the mean is positive and 0 otherwise, single-event groups included.
C12_VarianceAlwaysDefined ==
    pc = "done" =>
        \A i \in 1..Len(entity_metrics) :
            LET m == entity_metrics[i]
            IN /\ ~isna(m.pm_life_variance)
               /\ gt(m.avg_pm_life, 0)
                    => m.pm_life_variance = fdiv(m.pm_life_std_dev, m.avg_pm_life)
               /\ ~gt(m.avg_pm_life, 0) => m.pm_life_variance = Num(0)

----------------------------------------------------------------------------
(* Claims on the rolling pass                                              *)

\* the rows of one facility in (ww_year, ww_number) order
SortedFrame(f) == FacilityFrame(SortRows(fact_site), f)

WindowPositions(i) == {j \in (i - 3)..i : j >= 1}

DefinedIn(frame, f, i) == {j \in WindowPositions(i) : ~isna(frame[j][f])}

RECURSIVE SumOver(_, _, _)
SumOver(frame, f, js) ==
    IF js = {} THEN 0
    ELSE LET j == CHOOSE x \in js : TRUE
         IN Val(frame[j][f]) + SumOver(frame, f, js \ {j})

\* m is total / n to the last fixed-point unit
IsMeanOf(m, total, n) == m * n <= total /\ total < (m + 1) * n

RollingAverages(frame) == [i \in 1..Len(frame) |-> frame[i].rolling_4wk_avg_pm_life]

Averages(frame) == [i \in 1..Len(frame) |-> frame[i].avg_pm_life]

\* C8: after the Python rolling pass every site KPI row, the first three of
\* a facility included, holds a defined rolling_4wk_avg_pm_life equal to the
\* mean of avg_pm_life over the up to four rows ending at it, and the sums of
\* total_pm_events and total_downtime_hours over the same rows; the series
\* 10, 20, 30, 40, 50, 60 gives 10, 15, 20, 25, 35, 45.
C8_RollingDefinedForEveryRow ==
    pc = "done" /\ rolling_result # "none" =>
        \A f \in {"F1", "F2"} :
            LET frame == SortedFrame(f)
            IN /\ \A i \in 1..Len(frame) :
                    /\ ~isna(frame[i].rolling_4wk_avg_pm_life)
                    /\ IsMeanOf(Val(frame[i].rolling_4wk_avg_pm_life),
                                SumOver(frame, "avg_pm_life", DefinedIn(frame, "avg_pm_life", i)),
                                Cardinality(DefinedIn(frame, "avg_pm_life", i)))
                    /\ frame[i].rolling_4wk_pm_count
                       = Num(SumOver(frame, "total_pm_events", WindowPositions(i)))
                    /\ frame[i].rolling_4wk_downtime_hours
                       = Num(SumOver(frame, "total_downtime_hours", WindowPositions(i)))
               /\ Averages(frame) = [i \in 1..6 |-> Num(10 * i * Scale)]
                  => RollingAverages(frame)
                     = <<Num(10 * Scale), Num(15 * Scale), Num(20 * Scale),
                         Num(25 * Scale), Num(35 * Scale), Num(45 * Scale)>>

----------------------------------------------------------------------------
(* Claims on the enrichment stage (Spec)                                   *)

Ran == last_run.kind # "none"

AppendedNothing ==
    /\ last_run.enriched_appended = 0
    /\ last_run.summary_appended = 0
    /\ last_run.chronic_appended = 0

\* C6: an incremental enrichment that repeats a call which returned, over the
\* same dates and with no row added to pm_flex_raw in between, appends no row
\* to pm_flex_enriched, pm_flex_downtime_summary or pm_flex_chronic_tools.
C6_RepeatedIncrementalRunAppendsNothing ==
    (Ran /\ last_run.incremental /\ last_run.repeats_previous) => AppendedNothing

\* the repeated incremental call found the rows the first call had enriched
C6_Witness ==
    /\ Ran /\ last_run.kind = "enrich_and_load"
    /\ last_run.incremental /\ last_run.repeats_previous
    /\ Len(pm_flex_enriched) > 0
    /\ Len(pm_flex_downtime_summary) > 0
    /\ Len(pm_flex_chronic_tools) > 0
    /\ last_run.outcome = "returned"

\* C7: a call of the enrichment stage whose batch is empty, made through
\* enrich_and_load or through run_silver_etl, returns without raising and
\* reports zero rows processed.
C7_EmptyBatchCompletes ==
    (Ran /\ last_run.empty_batch) =>
        (last_run.outcome = "returned" /\ last_run.rows_processed = 0)

\* the tools that have a record in pm_flex_chronic_tools
RecordedTools == {pm_flex_chronic_tools[i].ENTITY : i \in 1..Len(pm_flex_chronic_tools)}

\* the record of a tool with the latest calculation_timestamp
LatestRecord(e) ==
    LET at == {i \in 1..Len(pm_flex_chronic_tools) : pm_flex_chronic_tools[i].ENTITY = e}
    IN pm_flex_chronic_tools[CHOOSE i \in at : \A j \in at : j <= i]

EnrichedRowsOf(e) == Len(SelectSeq(pm_flex_enriched, LAMBDA r : r.ENTITY = e))

\* C13: when only incremental enrichment calls were made and the last one
\* returned, the latest record of every tool in pm_flex_chronic_tools counts
\* all the rows of that tool in pm_flex_enriched.
C13_LatestRecordCountsAllEvents ==
    (Ran /\ last_run.only_incremental /\ last_run.outcome = "returned") =>
        \A e \in RecordedTools : LatestRecord(e).total_pm_events = EnrichedRowsOf(e)

\* the work week of an enriched row has a downtime summary row
InSummary(r) ==
    \E i \in 1..Len(pm_flex_downtime_summary) : pm_flex_downtime_summary[i].YEARWW = r.YEARWW

\* the tool of an enriched row has a chronic record
InChronic(r) ==
    \E i \in 1..Len(pm_flex_chronic_tools) : pm_flex_chronic_tools[i].ENTITY = r.ENTITY

\* C14: once an incremental call has returned, a failure of step 4 or
\* step 5 in an earlier call or not, every event in pm_flex_enriched is
\* also reflected in pm_flex_downtime_summary and in pm_flex_chronic_tools.
C14_RetryCompletesAllOutputs ==
    (Ran /\ last_run.incremental /\ last_run.outcome = "returned") =>
        \A i \in 1..Len(pm_flex_enriched) :
            InSummary(pm_flex_enriched[i]) /\ InChronic(pm_flex_enriched[i])

----------------------------------------------------------------------------
(* Claims on run_full_pipeline                                             *)

AllStages == <<TRUE, TRUE, TRUE>>

\* C15: a run of the three stages without full_refresh, on the file a
\* successful run of the three stages has just processed, adds no row to
\* pm_flex_raw, to a silver table or to a gold table, and does not end FAILED
C15_SecondRunIsNoOp ==
    (/\ last_pipeline.kind = "run_full_pipeline"
     /\ last_pipeline.repeats_successful
     /\ last_pipeline.stages = AllStages
     /\ ~last_pipeline.full_refresh)
        => /\ last_pipeline.raw_appended = 0
           /\ last_pipeline.silver_appended = 0
           /\ last_pipeline.gold_appended = 0
           /\ last_pipeline.status # "FAILED"

\* C20: when the bronze stage stops on a schema error and silver is enabled,
\* silver is not executed and the run does not report SUCCESS
C20_SchemaErrorIsFatal ==
    (/\ last_pipeline.kind = "run_full_pipeline"
     /\ last_pipeline.bronze_error = "SchemaValidationError"
     /\ last_pipeline.stages[2])
        => /\ last_pipeline.silver = "skipped"
           /\ last_pipeline.status # "SUCCESS"

----------------------------------------------------------------------------
(* Claims on the enriched table across run modes                           *)

\* C16: after any sequence of loads and silver runs in any mode,
\* pm_flex_enriched holds at most one row for each source_pm_flex_raw_id, and
\* a run appends exactly one enriched row for each raw row it loaded
C16_OneEnrichedRowPerRawRow ==
    /\ \A i, j \in 1..Len(pm_flex_enriched) :
          pm_flex_enriched[i].source_pm_flex_raw_id
              = pm_flex_enriched[j].source_pm_flex_raw_id => i = j
    /\ (Ran /\ last_run.outcome = "returned")
          => last_run.enriched_appended = last_run.rows_processed

----------------------------------------------------------------------------
(* Claims on configuration errors                                          *)

\* validate_config on the weights the analyzer holds: their total is within
\* 0.01 of 1.0
score_weights_valid(self) ==
    LET total_weight == self.weight_unscheduled + self.weight_variance
                        + self.weight_downtime + self.weight_reclean
                        + self.weight_sympathy
        diff == total_weight - Scale
    IN ~((IF diff < 0 THEN -diff ELSE diff) > Scale \div 100)

\* validate_config on the cutoffs the analyzer holds:
\* 0 < low < medium < high < critical <= 100
severity_thresholds_valid(self) ==
    /\ 0 < self.severity_low
    /\ self.severity_low < self.severity_medium
    /\ self.severity_medium < self.severity_high
    /\ self.severity_high < self.severity_critical
    /\ self.severity_critical <= 100

\* C17: no chronic score is computed under a configuration whose weights do
\* not total 1.0 or whose severity thresholds are malformed
C17_MalformedConfigBlocksScoring ==
    pc \in {"scored", "done"}
        => score_weights_valid(analyzer) /\ severity_thresholds_valid(analyzer)

----------------------------------------------------------------------------
(* SpecSite: KPIAggregator._create_site_kpis, the tool counts of a batch   *)

\* largest number of rows of pm_flex_chronic_tools
MaxChronic == 3

\* largest number of enriched rows of a batch
MaxBatch == 2

\* SELECT COUNT(*) FROM pm_flex_chronic_tools WHERE ENTITY IN (...) AND
\* chronic_flag = 1: the number of records, 0 for no entities
count_chronic_tools(chronic, entities) ==
    IF entities = {} THEN 0
    ELSE Cardinality({ i \in 1..Len(chronic) :
                         chronic[i].ENTITY \in entities /\ chronic[i].chronic_flag = 1 })

\* the distinct non-null ENTITY values of the (FACILITY, YEARWW) group
group_entities(df, facility, yearww) ==
    { Val(df[i].ENTITY) : i \in { j \in 1..Len(df) :
        df[j].FACILITY = facility /\ df[j].YEARWW = yearww /\ ~isna(df[j].ENTITY) } }

\* one row of site_kpis: nunique of ENTITY, the merged chronic count with
\* fillna(0), and their quotient with fillna(0)
site_kpi_row(df, chronic, facility, yearww) ==
    LET entities == group_entities(df, facility, yearww)
        total    == Cardinality(entities)
        count    == count_chronic_tools(chronic, entities)
    IN [FACILITY |-> facility, YEARWW |-> yearww,
        total_tools_count |-> total,
        chronic_tools_count |-> count,
        chronic_tools_pct |-> IF total = 0 THEN Num(0)
                              ELSE fdiv(Num(count * Scale), Num(total * Scale))]

\* groupby FACILITY and work week, one row per group in key order
create_site_kpis(df, chronic) ==
    LET weeks == SelectSeq(WeekKeys, LAMBDA w : \E i \in 1..Len(df) : df[i].YEARWW = w)
    IN [k \in 1..Len(weeks) |-> site_kpi_row(df, chronic, "F1", weeks[k])]

\* records of pm_flex_chronic_tools in the order the runs appended them
ChronicRecords ==
    [ENTITY : {"E1", "E2"}, CEID : {"C1", "C2"}, chronic_flag : {0, 1}]

ChronicTables == UNION {[1..n -> ChronicRecords] : n \in 0..MaxChronic}

BatchRows == [ENTITY : {NaN, Num("E1"), Num("E2")}, FACILITY : {"F1"}, YEARWW : {1, 2}]

Batches == UNION {[1..n -> BatchRows] : n \in 1..MaxBatch}

InitSite ==
    /\ pc = "input"
    /\ pm_flex_enriched \in Batches
    /\ pm_flex_chronic_tools \in ChronicTables
    /\ pm_flex_raw = <<>> /\ pm_flex_downtime_summary = <<>> /\ DimDate = {}
    /\ last_run = NoRun /\ raw_added = FALSE /\ run_count = 0
    /\ input_file = NoFile /\ fact_tables = NoFacts /\ last_pipeline = NoRun
    /\ IdleTiming /\ IdleChronic /\ IdleRolling

CreateSiteKpis ==
    /\ pc = "input"
    /\ fact_site' = fact_site \o create_site_kpis(pm_flex_enriched, pm_flex_chronic_tools)
    /\ pc' = "done"
    /\ UNCHANGED <<rolling_result, timingVars, chronicVars, pipelineVars>>

NextSite == CreateSiteKpis

SpecSite == InitSite /\ [][NextSite]_vars

\* the tools with a (tool, CEID) pair whose last appended record is flagged
CurrentlyChronic(entities) ==
    { e \in entities :
        \E i \in 1..Len(pm_flex_chronic_tools) :
            /\ pm_flex_chronic_tools[i].ENTITY = e
            /\ pm_flex_chronic_tools[i].chronic_flag = 1
            /\ \A j \in (i + 1)..Len(pm_flex_chronic_tools) :
                   ~(/\ pm_flex_chronic_tools[j].ENTITY = e
                     /\ pm_flex_chronic_tools[j].CEID = pm_flex_chronic_tools[i].CEID) }

\* C18: chronic_tools_count of a site row is the number of distinct tools of
\* its group whose latest record is flagged, so it never exceeds
\* total_tools_count and chronic_tools_pct never exceeds 1
C18_ChronicCountIsDistinctFlaggedTools ==
    pc = "done" =>
        \A k \in 1..Len(fact_site) :
            LET r == fact_site[k]
            IN /\ r.chronic_tools_count =
                    Cardinality(CurrentlyChronic(
                        group_entities(pm_flex_enriched, r.FACILITY, r.YEARWW)))
               /\ r.chronic_tools_count <= r.total_tools_count
               /\ ~gt(r.chronic_tools_pct, Scale)

----------------------------------------------------------------------------
(* SpecBackfill: gold runs that append a site row and roll the whole table *)

InitBackfill ==
    /\ pc = "input"
    /\ IdleTiming /\ IdleChronic /\ IdleRolling /\ IdlePipeline

\* one incremental gold run: _create_site_kpis appends the row of a
\* (FACILITY, YEARWW) the table lacks, then the rolling pass fetches every
\* row of the table and updates row by row until a statement fails
GoldRun ==
    /\ run_count < MaxRuns
    /\ \E facility \in {"F1", "F2"}, p \in 1..MaxWeeks, kind \in KpiKinds :
         LET new     == SiteRow(facility, <<2025, 1>>, p, kind)
             written == fact_site \o <<new>>
             updates == UpdateRows(SortRows(written))
             done    == Executed(updates)
         IN /\ ~\E i \in 1..Len(fact_site) :
                   fact_site[i].FACILITY = facility /\ fact_site[i].YEARWW = new.YEARWW
            /\ fact_site' = ApplyUpdates(written, updates, done)
            /\ rolling_result' = IF done < Len(updates) THEN "raised" ELSE "returned"
    /\ run_count' = run_count + 1
    /\ UNCHANGED <<pc, timingVars, chronicVars, pm_flex_raw, pm_flex_enriched,
                   pm_flex_downtime_summary, pm_flex_chronic_tools, DimDate,
                   last_run, raw_added, fullVars>>

NextBackfill == GoldRun

SpecBackfill == InitBackfill /\ [][NextBackfill]_vars

\* C19: a run leaves every row that an earlier run wrote to
\* fact_pm_kpis_by_site_ww as it was: it appends rows and backfills the
\* rolling columns of its own rows only
C19_EarlierRowsUnchanged ==
    [][\A i \in 1..Len(fact_site) : fact_site'[i] = fact_site[i]]_vars

----------------------------------------------------------------------------
(* SpecOrder: analyze_by_entity on short frames, compared across row orders *)

\* largest number of events of a frame whose row orders are all compared
MaxOrder == 4

OrderFrames ==
    UNION { { [i \in 1..n |-> Event(kp, dp, types, i)] :
                kp \in KeyProfiles, dp \in DeltaProfiles, types \in [1..n -> DowntimeTypes] }
            : n \in 1..MaxOrder }

InitOrder ==
    /\ pc = "input"
    /\ analyzer \in {ChronicToolAnalyzer_init(c) : c \in ChronicConfigs}
    /\ events \in OrderFrames
    /\ entity_metrics = <<>>
    /\ IdleTiming /\ IdleRolling /\ IdlePipeline

AnalyzeFrame ==
    /\ pc = "input"
    /\ entity_metrics' = analyze_by_entity(analyzer, events)
    /\ pc' = "done"
    /\ UNCHANGED <<analyzer, events, timingVars, rollingVars, pipelineVars>>

NextOrder == AnalyzeFrame

SpecOrder == InitOrder /\ [][NextOrder]_vars

\* the rows of df in the order p
Reordered(df, p) == [i \in 1..Len(df) |-> df[p[i]]]

\* the columns of an Entity Aggregate that the claim compares
Compared(m) ==
    [ENTITY |-> m.ENTITY, FACILITY |-> m.FACILITY, CEID |-> m.CEID,
     total_pm_events |-> m.total_pm_events,
     unscheduled_pm_count |-> m.unscheduled_pm_count,
     unscheduled_pm_rate |-> m.unscheduled_pm_rate,
     reclean_rate |-> m.reclean_rate,
     sympathy_pm_rate |-> m.sympathy_pm_rate,
     chronic_flag |-> m.chronic_flag,
     chronic_severity |-> m.chronic_severity]

ComparedSet(metrics) == { Compared(metrics[i]) : i \in 1..Len(metrics) }

\* C21: analyze_by_entity returns the same set of Entity Aggregates, with
\* the same counts, rates, chronic_flag and chronic_severity, for every
\* order of the same events
C21_OrderIndependent ==
    pc = "done" =>
        \A p \in Permutations(1..Len(events)) :
            ComparedSet(analyze_by_entity(analyzer, Reordered(events, p)))
                = ComparedSet(entity_metrics)

\* two tools with interleaved events of differing downtime types
C21_Witness ==
    /\ pc = "done"
    /\ Len(events) >= 3
    /\ Len(entity_metrics) = 2
    /\ \E i, j \in 1..Len(events) :
          /\ events[i].ENTITY = events[j].ENTITY
          /\ events[i].scheduled_flag # events[j].scheduled_flag

----------------------------------------------------------------------------
(* SpecDimDate: enrichment runs over the years, and the calendar table     *)

\* largest number of years between the first run and a later one
MaxYearsLater == 1

Years == 0..MaxYearsLater

\* enrich_and_load called when the clock shows current_year
EnrichInYear ==
    /\ run_count < MaxRuns
    /\ \E current_year \in Years, incremental \in BOOLEAN :
         \E res \in {enrich_and_load(Database, NaN, NaN, incremental, "none",
                                     current_year)} :
            /\ pm_flex_enriched' = res.db.enriched
            /\ pm_flex_downtime_summary' = res.db.summary
            /\ pm_flex_chronic_tools' = res.db.chronic
            /\ DimDate' = res.db.dimdate
            /\ last_run' = [kind |-> "enrich_and_load", current_year |-> current_year,
                            incremental |-> incremental, outcome |-> res.outcome,
                            empty_batch |-> res.empty_batch,
                            dim_date_before |-> DimDate]
    /\ raw_added' = FALSE
    /\ run_count' = run_count + 1
    /\ UNCHANGED <<pc, timingVars, chronicVars, rollingVars, pm_flex_raw, fullVars>>

NextDimDate == LoadRaw \/ EnrichInYear

SpecDimDate == Init /\ [][NextDimDate]_vars

----------------------------------------------------------------------------
(* SpecOwnership: run_full_pipeline over a few files, stage by stage       *)

\* an empty file, a file of one event, a file of two events in two weeks,
\* a file lacking a column
OwnershipFiles ==
    { NoFile,
      [columns_ok |-> TRUE,
       rows |-> <<[ENTITY |-> "E1", TXN_DATE |-> Num(2), YEARWW |-> 2]>>],
      [columns_ok |-> TRUE,
       rows |-> <<[ENTITY |-> "E1", TXN_DATE |-> NaN, YEARWW |-> 1],
                  [ENTITY |-> "E2", TXN_DATE |-> Num(2), YEARWW |-> 2]>>],
      [columns_ok |-> FALSE, rows |-> <<>>] }

FindFile ==
    /\ run_count < MaxRuns
    /\ \E file \in OwnershipFiles \ {input_file} : input_file' = file
    /\ UNCHANGED <<pc, timingVars, chronicVars, rollingVars, pm_flex_raw,
                   pm_flex_enriched, pm_flex_downtime_summary, pm_flex_chronic_tools,
                   DimDate, last_run, raw_added, run_count, fact_tables,
                   last_pipeline>>

NextOwnership == FindFile \/ RunFullPipeline

SpecOwnership == Init /\ [][NextOwnership]_vars

SilverTables == <<pm_flex_enriched, pm_flex_downtime_summary, pm_flex_chronic_tools>>

\* C23: a run without the bronze stage leaves pm_flex_raw as it was, also
\* when silver truncates for a full refresh, and a run of the gold stage
\* alone leaves pm_flex_raw and the three silver tables as they were
C23_DownstreamNeverWritesUpstream ==
    [][(run_count' = run_count + 1 /\ ~last_pipeline'.stages[1]) =>
          /\ pm_flex_raw' = pm_flex_raw
          /\ ~last_pipeline'.stages[2] => SilverTables' = SilverTables]_vars

\* a full refresh of silver and gold, without bronze, over loaded tables
C23_Witness ==
    /\ last_pipeline.kind = "run_full_pipeline"
    /\ last_pipeline.stages = <<FALSE, TRUE, TRUE>>
    /\ last_pipeline.full_refresh
    /\ last_pipeline.silver = "returned" /\ last_pipeline.gold = "returned"
    /\ Len(pm_flex_raw) > 0 /\ Len(pm_flex_enriched) > 0
    /\ Len(fact_tables.site) > 0

----------------------------------------------------------------------------
(* SpecValidate: validate_config on the pm_timing section                  *)

\* the errors validate_config appends for the pm_timing section
pm_timing_errors(pm_timing) ==
    IF ~(TimingKeys \subseteq DOMAIN pm_timing)
    THEN {"PM timing thresholds: Missing required values"}
    ELSE IF ~(/\ pm_timing.early_threshold < pm_timing.on_time_min
              /\ pm_timing.on_time_min <= pm_timing.on_time_max
              /\ pm_timing.on_time_max < pm_timing.late_threshold
              /\ pm_timing.late_threshold < pm_timing.overdue_threshold)
    THEN {"PM timing thresholds not in logical order"}
    ELSE {}

\* the variable timing holds the pm_timing section of config.yaml here
InitValidate ==
    /\ pc = "input"
    /\ timing \in TimingConfigs
    /\ row = [CUSTOM_DELTA |-> NaN, Median_Delta |-> NaN, pm_life_vs_target |-> NaN,
              pm_life_vs_target_pct |-> NaN, pm_timing_classification |-> "unset"]
    /\ IdleChronic /\ IdleRolling /\ IdlePipeline

\* the script ends with exit status 1 when errors were appended
ValidateConfig ==
    /\ pc = "input"
    /\ pc' = IF pm_timing_errors(timing) # {} THEN "rejected" ELSE "accepted"
    /\ UNCHANGED <<timingVars, chronicVars, rollingVars, pipelineVars>>

NextValidate == ValidateConfig

SpecValidate == InitValidate /\ [][NextValidate]_vars

RequiredOrdering(t) ==
    /\ t.early_threshold <= t.on_time_min
    /\ t.on_time_min <= t.on_time_max
    /\ t.on_time_max <= t.late_threshold
    /\ t.late_threshold <= t.overdue_threshold

\* C24: a complete threshold set is accepted when it satisfies
\* early <= on_time_min <= on_time_max <= late <= overdue and rejected when
\* it does not; the default set (-15, -15, 15, 15, 30) is accepted
C24_ValidatorMatchesRequiredOrdering ==
    (pc \in {"accepted", "rejected"} /\ TimingKeys \subseteq DOMAIN timing)
        => (pc = "accepted" <=> RequiredOrdering(timing))

----------------------------------------------------------------------------
(* Claims on the unscheduled count                                         *)

\* the events of the group of m whose category is 'Unscheduled'
UnscheduledEvents(m) ==
    { i \in 1..Len(events) :
        /\ HasKey(events[i])
        /\ GroupKey(events[i]) = <<m.ENTITY, m.FACILITY, m.CEID>>
        /\ events[i].scheduled_category = "Unscheduled" }

\* C25: unscheduled_pm_count of every Entity Aggregate is the number of
\* events of its group whose scheduled_category is 'Unscheduled'; an event
\* of category 'Unknown' is not counted
C25_UnscheduledCountsOnlyUnscheduled ==
    pc = "done" =>
        \A k \in 1..Len(entity_metrics) :
            entity_metrics[k].unscheduled_pm_count
                = Cardinality(UnscheduledEvents(entity_metrics[k]))

----------------------------------------------------------------------------
(* Claims on the status of run_full_pipeline                               *)

StageOutcomes == <<last_pipeline.bronze, last_pipeline.silver, last_pipeline.gold>>

\* C26: run_full_pipeline reports SUCCESS only when every enabled stage
\* completed without error; a run in which an enabled stage failed raises
C26_SuccessMeansEveryStageSucceeded ==
    (last_pipeline.kind = "run_full_pipeline" /\ last_pipeline.status = "SUCCESS")
        => \A k \in 1..3 : last_pipeline.stages[k] => StageOutcomes[k] = "returned"

----------------------------------------------------------------------------
(* Claims on the site KPI table across gold runs                           *)

\* the pm_flex_enriched rows of one work week
EnrichedRowsOfWeek(yearww) ==
    Len(SelectSeq(pm_flex_enriched, LAMBDA e : e.YEARWW = yearww))

\* C27: after enrichment runs and incremental gold runs ending with a
\* successful gold run, total_pm_events of every site KPI row is the number
\* of pm_flex_enriched rows of its facility and week, rows that arrived after
\* the KPI row was written included
C27_SiteRowsComplete ==
    (/\ last_pipeline.kind = "run_full_pipeline"
     /\ last_pipeline.only_incremental
     /\ last_pipeline.gold = "returned"
     /\ last_pipeline.gold_appended > 0)
        => \A k \in 1..Len(fact_tables.site) :
              fact_tables.site[k].total_pm_events
                  = EnrichedRowsOfWeek(fact_tables.site[k].YEARWW)

----------------------------------------------------------------------------
(* Claims on the query of _load_raw_data                                   *)

\* the pm_flex_raw rows that satisfy the filters a call asks for
Requested(start_date, end_date, incremental) ==
    SelectSeq(pm_flex_raw, LAMBDA r :
        /\ ~isna(start_date) => (~isna(r.TXN_DATE) /\ Val(r.TXN_DATE) >= Val(start_date))
        /\ ~isna(end_date) => (~isna(r.TXN_DATE) /\ Val(r.TXN_DATE) < Val(end_date))
        /\ incremental => ~Enriched(pm_flex_enriched, r))

\* C29: for every combination of the incremental flag and of present or
\* absent start_date and end_date, enrich_and_load loads exactly the
\* pm_flex_raw rows that satisfy the requested filters
C29_QuerySelectsRequestedRows ==
    [][(run_count' = run_count + 1 /\ last_run'.kind = "enrich_and_load") =>
          pm_flex_enriched' =
              pm_flex_enriched
                  \o load_enriched(Requested(last_run'.start_date, last_run'.end_date,
                                             last_run'.incremental))]_vars

----------------------------------------------------------------------------
(* SpecWorkWeek: PMFlexEnrichment._parse_work_week on one event row        *)

\* a YEARWW string is the sequence of its characters, a digit being its value
IsDigit(c) == c \in 0..9

\* re.match(r"(\d{4})WW(\d{2})", ww_string): a prefix match
ww_matches(ww_string) ==
    /\ Len(ww_string) >= 8
    /\ \A i \in 1..4 : IsDigit(ww_string[i])
    /\ ww_string[5] = "W" /\ ww_string[6] = "W"
    /\ IsDigit(ww_string[7]) /\ IsDigit(ww_string[8])

\* parse_ww_string: (int(group 1), int(group 2))
parse_ww_string(ww_string) ==
    << 1000 * ww_string[1] + 100 * ww_string[2] + 10 * ww_string[3] + ww_string[4],
       10 * ww_string[7] + ww_string[8] >>

\* parse_ww of _parse_work_week: (None, None) for a null or an unparsable string
parse_ww(yearww) ==
    IF isna(yearww) \/ ~ww_matches(Val(yearww)) THEN <<NaN, NaN>>
    ELSE <<Num(parse_ww_string(Val(yearww))[1]), Num(parse_ww_string(Val(yearww))[2])>>

\* ((ww_number - 1) // n) + 1, NaN for a null week
week_bucket(ww_number, n) ==
    IF isna(ww_number) THEN NaN ELSE Num(((Val(ww_number) - 1) \div n) + 1)

parse_work_week(r) ==
    [r EXCEPT !.ww_year = parse_ww(r.YEARWW)[1],
              !.ww_number = parse_ww(r.YEARWW)[2],
              !.fiscal_quarter = week_bucket(parse_ww(r.YEARWW)[2], 13),
              !.fiscal_month = week_bucket(parse_ww(r.YEARWW)[2], 4)]

\* work week strings of two years with every two-digit week, with or without
\* a suffix, a string in another format, and a null
WorkWeekStrings ==
    { Num(y \o <<"W", "W", d1, d2>> \o sfx) :
        y \in {<<2, 0, 2, 4>>, <<2, 0, 2, 5>>}, d1 \in 0..9, d2 \in 0..9,
        sfx \in {<<>>, <<0, 1>>} }
    \cup {Num(<<2, 0, 2, 5, "-", 2, 2>>), NaN}

InitWorkWeek ==
    /\ pc = "input"
    /\ timing = PMTimingClassifier_init(<<>>)
    /\ row \in [YEARWW : WorkWeekStrings, ww_year : {NaN}, ww_number : {NaN},
                 fiscal_quarter : {NaN}, fiscal_month : {NaN}]
    /\ IdleChronic /\ IdleRolling /\ IdlePipeline

ParseWorkWeek ==
    /\ pc = "input"
    /\ row' = parse_work_week(row)
    /\ pc' = "done"
    /\ UNCHANGED <<timing, chronicVars, rollingVars, pipelineVars>>

NextWorkWeek == ParseWorkWeek

SpecWorkWeek == InitWorkWeek /\ [][NextWorkWeek]_vars

\* C30: for every parsed fiscal week number in 1..52 the derived
\* fiscal_quarter lies in 1..4 and the derived fiscal_month in 1..12
C30_QuarterAndMonthInRange ==
    (pc = "done" /\ ~isna(row.ww_number) /\ Val(row.ww_number) \in 1..52)
        => /\ Val(row.fiscal_quarter) \in 1..4
           /\ Val(row.fiscal_month) \in 1..12

============================================================================
